---- MODULE Spec2Model ----
(***************************************************************************)
(* A model of nyt-best-sellers.py: the identifier normalizers, the         *)
(* cross-list merge (build_abs_collections), the catalog resolver          *)
(* (resolve_abs_id_for_book), the collection sync routines                 *)
(* (get_or_create_collection, replace_collection_books), the connection    *)
(* retry loop (open_abs_db) and the run orchestrator (main).               *)
(*                                                                         *)
(* Python strings are sequences of one-character strings, so that the     *)
(* normalizers and the SQL LIKE match compute on characters.  An absent    *)
(* rank (None) is NoRank; an absent identifier (None) is None.             *)
(***************************************************************************)
EXTENDS Integers, Sequences, FiniteSets, TLC

VARIABLES
    pc,               \* position of main (or of the driver of a component)
    overview,         \* the snapshot index: list slug -> entries (overview_to_index)
    collections,      \* main's `collections`: group name -> list of Book
    gi, bi,           \* main's loop positions: group index, book index
    seen, kept,       \* main's per-group `seen` set and `kept` list
    lib_id,           \* main's lib_id
    booksTable,       \* catalog table books (+ bookAuthors/authors/libraryItems), rowid order
    librariesTable,   \* catalog table libraries, rowid order
    collectionsTable, \* catalog table collections, rowid order
    collectionBooks,  \* catalog table collectionBooks: a set of rows
    saved,            \* the rollback journal: the tables as of BEGIN
    txOpen,           \* a write transaction is open on the connection
    clock,            \* utc_now_sql(): a logical time
    db0,              \* history: the collections tables before the run
    trace,            \* history: the events of the run, in order
    call,             \* history: the last operation applied and its result
    attempt, sleeps, lastExc, connState, retries, backoff   \* open_abs_db

vars == <<pc, overview, collections, gi, bi, seen, kept, lib_id, booksTable,
          librariesTable, collectionsTable, collectionBooks, saved, txOpen,
          clock, db0, trace, call,
          attempt, sleeps, lastExc, connState, retries, backoff>>

None == "None"
NoRank == 0

----------------------------------------------------------------------------
(* Characters and strings *)

\* str.lower() on the characters the model uses
Lower(c) ==
    CASE c = "A" -> "a"
      [] c = "B" -> "b"
      [] c = "F" -> "f"
      [] c = "O" -> "o"
      [] c = "X" -> "x"
      [] OTHER -> c

\* code point order of the characters the model uses (for sorted())
Ord(c) ==
    CASE c = " " -> 32
      [] c = "-" -> 45
      [] c = "1" -> 49
      [] c = "2" -> 50
      [] c = "A" -> 65
      [] c = "B" -> 66
      [] c = "F" -> 70
      [] c = "O" -> 79
      [] c = "X" -> 88
      [] c = "a" -> 97
      [] c = "b" -> 98
      [] c = "f" -> 102
      [] c = "o" -> 111
      [] c = "x" -> 120
      [] OTHER -> 124

LowerStr(s) == [i \in 1..Len(s) |-> Lower(s[i])]

IsSpace(c) == c = " "

RECURSIVE LStrip(_)
LStrip(s) == IF Len(s) > 0 /\ IsSpace(Head(s)) THEN LStrip(Tail(s)) ELSE s

Reverse(s) == [i \in 1..Len(s) |-> s[Len(s) + 1 - i]]

\* str.strip()
Strip(s) == Reverse(LStrip(Reverse(LStrip(s))))

\* str.split(): the maximal runs of non-whitespace
RECURSIVE SplitWs(_)
SplitWs(s) ==
    LET t == LStrip(s)
        n == IF \E i \in 1..Len(t) : IsSpace(t[i])
             THEN CHOOSE i \in 1..Len(t) :
                      IsSpace(t[i]) /\ \A j \in 1..(i - 1) : ~IsSpace(t[j])
             ELSE Len(t) + 1
    IN  IF Len(t) = 0 THEN <<>>
        ELSE <<SubSeq(t, 1, n - 1)>> \o SplitWs(SubSeq(t, n, Len(t)))

\* sep.join(parts)
RECURSIVE Join(_, _)
Join(parts, sep) ==
    IF Len(parts) = 0 THEN <<>>
    ELSE IF Len(parts) = 1 THEN Head(parts)
    ELSE Head(parts) \o sep \o Join(Tail(parts), sep)

IsIsbnChar(c) == c \in {"0", "1", "2", "3", "4", "5", "6", "7", "8", "9", "X", "x"}

\* re.sub(r"[^0-9Xx]", "", s or "").lower()
normalize_isbn(s) == LowerStr(SelectSeq(s, IsIsbnChar))

\* " ".join((s or "").split()).lower()
normalize_title(s) == LowerStr(Join(SplitWs(s), <<" ">>))

\* "%" + " ".join(name.split()).lower().replace(" ", "%") + "%"
make_author_like_pattern(name) ==
    LET n == LowerStr(Join(SplitWs(name), <<" ">>))
    IN  <<"%">> \o [i \in 1..Len(n) |-> IF n[i] = " " THEN "%" ELSE n[i]] \o <<"%">>

\* SQL: s LIKE pat, with % matching any run of characters
RECURSIVE Like(_, _)
Like(s, pat) ==
    IF Len(pat) = 0 THEN Len(s) = 0
    ELSE IF Head(pat) = "%"
         THEN \E k \in 0..Len(s) : Like(SubSeq(s, k + 1, Len(s)), Tail(pat))
         ELSE Len(s) > 0 /\ Lower(Head(s)) = Lower(Head(pat)) /\ Like(Tail(s), Tail(pat))

\* lexicographic s < t on code points
RECURSIVE StrLess(_, _)
StrLess(s, t) ==
    IF Len(t) = 0 THEN FALSE
    ELSE IF Len(s) = 0 THEN TRUE
    ELSE IF Ord(Head(s)) # Ord(Head(t)) THEN Ord(Head(s)) < Ord(Head(t))
    ELSE StrLess(Tail(s), Tail(t))

----------------------------------------------------------------------------
(* Source Record Extractor and Cross-List Merger *)

\* one dataclass Book; __post_init__ strips each author
Book(title, authors, isbn, nyt_list, rank) ==
    [title |-> title,
     authors |-> [i \in 1..Len(authors) |-> Strip(authors[i])],
     isbn |-> isbn, nyt_list |-> nyt_list, rank |-> rank, abs_book_id |-> None]

\* An entry of a list object carries title, authors (the author text as
\* parse_authors splits it), primary_isbn13, primary_isbn10 and rank.
extract_books_from_list(slug, entries) ==
    [i \in 1..Len(entries) |->
        LET b == entries[i]
            isbn == IF Len(b.primary_isbn13) > 0 THEN b.primary_isbn13 ELSE b.primary_isbn10
        IN  Book(Strip(b.title), b.authors, Strip(isbn), slug, b.rank)]

\* faulty variant of MergeKey: the ISBN normalized before it is used as the key
MergeKeyNormalized(bk) ==
    IF Len(bk.isbn) = 0
    THEN LowerStr(bk.title \o <<"|">> \o Join(bk.authors, <<",">>))
    ELSE normalize_isbn(bk.isbn)

\* the dict key of build_abs_collections
MergeKey(bk) ==
    IF Len(bk.isbn) = 0
    THEN LowerStr(bk.title \o <<"|">> \o Join(bk.authors, <<",">>))
    ELSE bk.isbn

\* faulty variant of MergeOne: `<=` for `<`, so a later record wins a tie
MergeOneLaterWinsTie(merged, bk) ==
    LET key == MergeKey(bk)
        hit == {i \in 1..Len(merged) : merged[i].key = key}
    IN  IF hit = {} THEN Append(merged, [key |-> key, book |-> bk])
        ELSE LET i == CHOOSE j \in hit : TRUE
                 old == merged[i].book
             IN  IF bk.rank # NoRank /\ (old.rank = NoRank \/ bk.rank <= old.rank)
                 THEN [merged EXCEPT ![i].book = bk]
                 ELSE merged

\* one iteration of `for bk in books`; merged is the dict in insertion order
MergeOne(merged, bk) ==
    LET key == MergeKey(bk)
        hit == {i \in 1..Len(merged) : merged[i].key = key}
    IN  IF hit = {} THEN Append(merged, [key |-> key, book |-> bk])
        ELSE LET i == CHOOSE j \in hit : TRUE
                 old == merged[i].book
             IN  IF bk.rank # NoRank /\ (old.rank = NoRank \/ bk.rank < old.rank)
                 THEN [merged EXCEPT ![i].book = bk]
                 ELSE merged

RECURSIVE FoldBooks(_, _)
FoldBooks(merged, books) ==
    IF Len(books) = 0 THEN merged
    ELSE FoldBooks(MergeOne(merged, Head(books)), Tail(books))

\* `for slug in list_slugs`, a slug missing from the index skipped
RECURSIVE FoldSlugs(_, _, _)
FoldSlugs(merged, idx, slugs) ==
    IF Len(slugs) = 0 THEN merged
    ELSE LET slug == Head(slugs)
         IN  FoldSlugs(IF slug \in DOMAIN idx
                       THEN FoldBooks(merged, extract_books_from_list(slug, idx[slug]))
                       ELSE merged,
                       idx, Tail(slugs))

BigRank == 1000000

\* the sort key (b.rank is None, b.rank or 1_000_000, b.title.lower()), compared
SortKeyLess(a, b) ==
    LET an == a.rank = NoRank
        bn == b.rank = NoRank
        ar == IF an THEN BigRank ELSE a.rank
        br == IF bn THEN BigRank ELSE b.rank
    IN  IF an # bn THEN bn
        ELSE IF ar # br THEN ar < br
        ELSE StrLess(LowerStr(a.title), LowerStr(b.title))

RECURSIVE InsertSorted(_, _)
InsertSorted(s, x) ==
    IF Len(s) = 0 THEN <<x>>
    ELSE IF SortKeyLess(x, Head(s)) THEN <<x>> \o s
    ELSE <<Head(s)>> \o InsertSorted(Tail(s), x)

\* sorted(): stable
RECURSIVE SortBooks(_, _)
SortBooks(acc, s) ==
    IF Len(s) = 0 THEN acc ELSE SortBooks(InsertSorted(acc, Head(s)), Tail(s))

build_abs_collections(idx, mapping) ==
    [name \in DOMAIN mapping |->
        LET merged == FoldSlugs(<<>>, idx, mapping[name])
        IN  SortBooks(<<>>, [i \in 1..Len(merged) |-> merged[i].book])]

----------------------------------------------------------------------------
(* Catalog Resolver *)

\* LIMIT 1 with no ORDER BY: the first matching row in scan (rowid) order
First(S) == CHOOSE i \in S : \A j \in S : i <= j

NotHyphen(c) == c # "-"

\* REPLACE(LOWER(COALESCE(b.isbn,'')),'-','')
SqlIsbn(s) == SelectSeq(LowerStr(s), NotHyphen)

\* faulty variant of IsbnRows: the libraryItems condition left out
IsbnRowsAnyLibrary(tbl, n, library_id) ==
    {i \in 1..Len(tbl) : SqlIsbn(tbl[i].isbn) = n}

\* rows of the ISBN query: stored ISBN equal to n, and a libraryItems row in the library
IsbnRows(tbl, n, library_id) ==
    {i \in 1..Len(tbl) : SqlIsbn(tbl[i].isbn) = n /\ library_id \in tbl[i].libs}

\* rows of the title+author query
TitleRows(tbl, tnorm, pat, library_id) ==
    {i \in 1..Len(tbl) :
        /\ LowerStr(tbl[i].title) = tnorm
        /\ \E a \in tbl[i].authors : Like(LowerStr(a), pat)
        /\ library_id \in tbl[i].libs}

Query(q, isbn, title, pat) == [q |-> q, isbn |-> isbn, title |-> title, pat |-> pat]

\* each lookup returns the identifier (or None) and the queries it executed
find_book_id_by_isbn(tbl, isbn, library_id) ==
    LET n == normalize_isbn(isbn)
        hit == IsbnRows(tbl, n, library_id)
    IN  IF Len(isbn) = 0 \/ Len(n) = 0 THEN [id |-> None, log |-> <<>>]
        ELSE [id |-> IF hit = {} THEN None ELSE tbl[First(hit)].id,
              log |-> <<Query("isbn", n, <<>>, <<>>)>>]

\* `for a in authors or []`
RECURSIVE AuthorLoop(_, _, _, _, _)
AuthorLoop(tbl, tnorm, authors, library_id, log) ==
    IF Len(authors) = 0 THEN [id |-> None, log |-> log]
    ELSE LET pat == make_author_like_pattern(Head(authors))
             hit == TitleRows(tbl, tnorm, pat, library_id)
             log2 == Append(log, Query("title", <<>>, tnorm, pat))
         IN  IF hit # {} THEN [id |-> tbl[First(hit)].id, log |-> log2]
             ELSE AuthorLoop(tbl, tnorm, Tail(authors), library_id, log2)

find_book_id_by_author_title(tbl, title, authors, library_id) ==
    LET tnorm == normalize_title(title)
    IN  IF Len(tnorm) = 0 THEN [id |-> None, log |-> <<>>]
        ELSE AuthorLoop(tbl, tnorm, authors, library_id, <<>>)

resolve_abs_id_for_book(tbl, book, library_id) ==
    LET r1 == find_book_id_by_isbn(tbl, book.isbn, library_id)
        r2 == find_book_id_by_author_title(tbl, book.title, book.authors, library_id)
    IN  IF r1.id # None THEN r1
        ELSE [id |-> r2.id, log |-> r1.log \o r2.log]

\* rows of SELECT id FROM libraries WHERE name = ?
LibraryRows(tbl, library_name) == {i \in 1..Len(tbl) : tbl[i].name = library_name}

\* defined when LibraryRows is not empty; otherwise the code raises RuntimeError
get_library_id(tbl, library_name) == tbl[First(LibraryRows(tbl, library_name))].id

----------------------------------------------------------------------------
(* Collection Sync Engine *)

\* new_uuid(): the n-th identifier generated in the call made at time `now`;
\* never equal to a stored one, nor to one generated by another call
Uuid(now, n) == <<"uuid", now, n>>

\* identifiers of the rows the catalog held before the run
StoredId(n) == <<"stored", 0, n>>

\* rows of SELECT id FROM collections WHERE name = ?
CollectionRows(tbl, collection_name) ==
    {i \in 1..Len(tbl) : tbl[i].name = collection_name}

\* faulty variant of get_or_create_collection: no `return coll_id` after the UPDATE
get_or_create_collection_falls_through(tbl, collection_name, library_id, now) ==
    LET fresh == Uuid(now, 0)
    IN  [id |-> fresh,
         table |-> Append([i \in 1..Len(tbl) |->
                              IF tbl[i].name = collection_name
                              THEN [tbl[i] EXCEPT !.updatedAt = now]
                              ELSE tbl[i]],
                          [id |-> fresh, name |-> collection_name,
                           libraryId |-> library_id,
                           createdAt |-> now, updatedAt |-> now])]

\* returns the collection id and the collections table after the call
get_or_create_collection(tbl, collection_name, library_id, now) ==
    LET hit == CollectionRows(tbl, collection_name)
        fresh == Uuid(now, 0)
    IN  IF hit # {}
        THEN LET coll_id == tbl[First(hit)].id
             IN  [id |-> coll_id,
                  table |-> [i \in 1..Len(tbl) |->
                                IF tbl[i].id = coll_id
                                THEN [tbl[i] EXCEPT !.updatedAt = now]
                                ELSE tbl[i]]]
        ELSE [id |-> fresh,
              table |-> Append(tbl, [id |-> fresh, name |-> collection_name,
                                     libraryId |-> library_id,
                                     createdAt |-> now, updatedAt |-> now])]

\* DELETE FROM collectionBooks WHERE collectionId = ?
DeleteRows(rows, collection_id) == {r \in rows : r.collectionId # collection_id}

\* faulty variant of UniqueBooks: the `abs_id in seen` test left out
RECURSIVE UniqueBooksNoDedup(_, _, _)
UniqueBooksNoDedup(books, seenIds, unique_books) ==
    IF Len(books) = 0 THEN unique_books
    ELSE LET abs_id == Head(books).abs_book_id
         IN  IF abs_id = None
             THEN UniqueBooksNoDedup(Tail(books), seenIds, unique_books)
             ELSE UniqueBooksNoDedup(Tail(books), seenIds, Append(unique_books, abs_id))

\* the stable de-dup loop: first occurrence kept, books without an id skipped
RECURSIVE UniqueBooks(_, _, _)
UniqueBooks(books, seenIds, unique_books) ==
    IF Len(books) = 0 THEN unique_books
    ELSE LET abs_id == Head(books).abs_book_id
         IN  IF abs_id = None \/ abs_id \in seenIds
             THEN UniqueBooks(Tail(books), seenIds, unique_books)
             ELSE UniqueBooks(Tail(books), seenIds \cup {abs_id},
                              Append(unique_books, abs_id))

\* the payload and executemany INSERT
InsertRows(rows, collection_id, books, now) ==
    LET unique_books == UniqueBooks(books, {}, <<>>)
    IN  rows \cup {[id |-> Uuid(now, i), order |-> i, createdAt |-> now,
                    bookId |-> unique_books[i], collectionId |-> collection_id] :
                   i \in 1..Len(unique_books)}

replace_collection_books(rows, collection_id, books, now) ==
    InsertRows(DeleteRows(rows, collection_id), collection_id, books, now)

\* with library_id given: get_or_create_collection, then replace_collection_books
\* each of the two calls reads utc_now_sql() once
upsert_abs_collection_with_books(tbl, rows, name, books, library_id, now) ==
    LET g == get_or_create_collection(tbl, name, library_id, now)
    IN  [id |-> g.id, table |-> g.table,
         rows |-> replace_collection_books(rows, g.id, books, now + 1)]

----------------------------------------------------------------------------
(* Configuration and the inputs the model draws from *)

ABS_LIBRARY_NAME == "books"

\* ABS_COLLECTIONS: collection name -> NYT list slugs, here two collections
ABS_COLLECTIONS == ("NYT" :> <<"A", "B">>) @@ ("Kids" :> <<"C">>)

\* the order of ABS_COLLECTIONS.items()
CollectionNames == <<"NYT", "Kids">>

MaxEntries == 2

Entry(title, authors, isbn13, isbn10, rank) ==
    [title |-> title, authors |-> authors, primary_isbn13 |-> isbn13,
     primary_isbn10 |-> isbn10, rank |-> rank]

\* all sequences over S of length at most n
RECURSIVE SeqsUpTo(_, _)
SeqsUpTo(S, n) ==
    IF n = 0 THEN {<<>>}
    ELSE LET shorter == SeqsUpTo(S, n - 1)
         IN  shorter \cup {Append(s, x) : s \in shorter, x \in S}

\* entries for the merge: one ISBN written three ways, titles that differ in
\* case and inner whitespace, ranks present, tied and absent
MergePool ==
    {Entry(<<"F", "o">>, <<<<"a">>>>, <<"1", "2">>, <<>>, 2),
     Entry(<<"f", "o">>, <<<<"b">>>>, <<"1", "2">>, <<>>, 1),
     Entry(<<"F", "o">>, <<<<"a">>>>, <<"1", "-", "2">>, <<>>, 1),
     Entry(<<"a", " ", "b">>, <<<<"a">>>>, <<>>, <<>>, NoRank),
     Entry(<<"a", " ", " ", "b">>, <<<<"a">>>>, <<>>, <<>>, 3),
     Entry(<<" ", "A", " ", "b">>, <<<<"a">>>>, <<>>, <<>>, 2),
     Entry(<<"o">>, <<>>, <<>>, <<"1", "2">>, NoRank),
     Entry(<<"b">>, <<<<"b">>>>, <<" ", "1", "2">>, <<>>, 2)}

\* the snapshots of the merge: list A of up to MaxEntries entries, list B
\* absent or of one entry, list C absent or of one entry
MergeOverviews ==
    {[s \in present |-> lists[s]] :
        present \in {{"A"}, {"A", "B"}, {"A", "C"}, {"A", "B", "C"}},
        lists \in [A : SeqsUpTo(MergePool, MaxEntries),
                   B : {<<e>> : e \in MergePool},
                   C : {<<Entry(<<"b">>, <<>>, <<"2">>, <<>>, 1)>>}]}

runVars == <<gi, bi, seen, kept, lib_id>>
dbVars == <<booksTable, librariesTable, collectionsTable, collectionBooks,
            saved, txOpen, clock, db0>>
connVars == <<attempt, sleeps, lastExc, connState, retries, backoff>>

NoCall == [op |-> "none"]

RunIdle == gi = 0 /\ bi = 0 /\ seen = {} /\ kept = <<>> /\ lib_id = None
DbIdle ==
    /\ booksTable = <<>> /\ librariesTable = <<>> /\ collectionsTable = <<>>
    /\ collectionBooks = {} /\ saved = <<>> /\ txOpen = FALSE
    /\ clock = 0 /\ db0 = <<>>
ConnIdle ==
    /\ attempt = 0 /\ sleeps = <<>> /\ lastExc = None /\ connState = "idle"
    /\ retries = 0 /\ backoff = 0

----------------------------------------------------------------------------
(* The merge, driven alone: fetch a snapshot, build the collections *)

MergeInit ==
    /\ pc = "start" /\ overview = <<>> /\ collections = <<>>
    /\ trace = <<>> /\ call = NoCall
    /\ RunIdle /\ DbIdle /\ ConnIdle

MergeFetch ==
    /\ pc = "start"
    /\ \E ov \in MergeOverviews : overview' = ov
    /\ pc' = "fetched"
    /\ UNCHANGED <<collections, trace, call, runVars, dbVars, connVars>>

MergeBuild ==
    /\ pc = "fetched"
    /\ collections' = build_abs_collections(overview, ABS_COLLECTIONS)
    /\ pc' = "built"
    /\ UNCHANGED <<overview, trace, call, runVars, dbVars, connVars>>

MergeNext == MergeFetch \/ MergeBuild

SpecMerge == MergeInit /\ [][MergeNext]_vars

\* the records of a collection's source lists, in fold order
RECURSIVE SourceRecords(_, _)
SourceRecords(idx, slugs) ==
    IF Len(slugs) = 0 THEN <<>>
    ELSE (IF Head(slugs) \in DOMAIN idx
          THEN extract_books_from_list(Head(slugs), idx[Head(slugs)])
          ELSE <<>>) \o SourceRecords(idx, Tail(slugs))

MinOf(S) == CHOOSE x \in S : \A y \in S : x <= y

\* the rank and the record C5 promises for the records at positions `members`
BestRank(recs, members) ==
    LET ranks == {recs[i].rank : i \in members} \ {NoRank}
    IN  IF ranks = {} THEN NoRank ELSE MinOf(ranks)

Winner(recs, members) ==
    MinOf({i \in members : recs[i].rank = BestRank(recs, members)})

\* C5: for every collection and every merge key, exactly one merged entry
\* carries the key; its rank is the least present rank among the records with
\* that key (absent only if all are absent) and it is, field for field, the
\* first record that carried that rank.
C5_BestRankKept ==
    pc = "built" =>
        \A name \in DOMAIN ABS_COLLECTIONS :
            LET recs == SourceRecords(overview, ABS_COLLECTIONS[name])
                out == collections[name]
            IN  \A i \in 1..Len(recs) :
                    LET members == {j \in 1..Len(recs) : MergeKey(recs[j]) = MergeKey(recs[i])}
                        got == {k \in 1..Len(out) : MergeKey(out[k]) = MergeKey(recs[i])}
                    IN  /\ Cardinality(got) = 1
                        /\ \A k \in got :
                              /\ out[k].rank = BestRank(recs, members)
                              /\ out[k] = recs[Winner(recs, members)]

\* C5 witness: a later record with a strictly better rank displaced the stored
\* one, and in the same collection an exact tie was kept by the earlier record
C5_Witness ==
    /\ pc = "built"
    /\ LET recs == SourceRecords(overview, ABS_COLLECTIONS["NYT"])
           out == collections["NYT"]
       IN  /\ \E i, j \in 1..Len(recs) :
                 /\ i < j /\ MergeKey(recs[i]) = MergeKey(recs[j])
                 /\ recs[j].rank # NoRank /\ recs[i].rank # NoRank
                 /\ recs[j].rank < recs[i].rank
                 /\ \E k \in 1..Len(out) : out[k] = recs[j]
           /\ \E i, j \in 1..Len(recs) :
                 /\ i < j /\ MergeKey(recs[i]) = MergeKey(recs[j])
                 /\ recs[j].rank = recs[i].rank /\ recs[i] # recs[j]
                 /\ \E k \in 1..Len(out) : out[k] = recs[i]

\* the merge key as the specification words it: the normalized ISBN when not
\* empty, else normalized title | comma-joined normalized authors
NormalizedKey(bk) ==
    IF Len(normalize_isbn(bk.isbn)) > 0 THEN normalize_isbn(bk.isbn)
    ELSE normalize_title(bk.title) \o <<"|">>
         \o Join([i \in 1..Len(bk.authors) |-> normalize_title(bk.authors[i])], <<",">>)

\* the merge key as the records are keyed: the stripped ISBN as written when
\* not empty, else the lowercased "title|author,author"
WrittenKey(bk) ==
    IF Len(bk.isbn) > 0 THEN bk.isbn
    ELSE LowerStr(bk.title) \o <<"|">>
         \o LowerStr(Join(bk.authors, <<",">>))

\* C6 as claimed: no two merged entries of a collection have the same
\* normalized merge key
C6_OnePerNormalizedKey ==
    pc = "built" =>
        \A name \in DOMAIN ABS_COLLECTIONS :
            \A k1, k2 \in 1..Len(collections[name]) :
                NormalizedKey(collections[name][k1]) = NormalizedKey(collections[name][k2])
                    => k1 = k2

\* C6 amended: the merged output has exactly one entry per written merge key
\* of its source records, so records with equal written keys yield one entry
C6_OnePerWrittenKey ==
    pc = "built" =>
        \A name \in DOMAIN ABS_COLLECTIONS :
            LET recs == SourceRecords(overview, ABS_COLLECTIONS[name])
                out == collections[name]
            IN  /\ \A k1, k2 \in 1..Len(out) :
                       WrittenKey(out[k1]) = WrittenKey(out[k2]) => k1 = k2
                /\ {WrittenKey(out[k]) : k \in 1..Len(out)}
                       = {WrittenKey(recs[i]) : i \in 1..Len(recs)}

\* C6 witness: two different records with one written key became one entry,
\* and two records whose keys differ only before normalization stayed two
C6_Witness ==
    /\ pc = "built"
    /\ LET recs == SourceRecords(overview, ABS_COLLECTIONS["NYT"])
           out == collections["NYT"]
       IN  /\ Len(recs) = 3 /\ Len(out) = 2
           /\ \E i, j \in 1..Len(recs) :
                 i # j /\ recs[i] # recs[j] /\ WrittenKey(recs[i]) = WrittenKey(recs[j])
           /\ NormalizedKey(out[1]) = NormalizedKey(out[2])

----------------------------------------------------------------------------
(* open_abs_db: the connection retry loop *)

MaxRetries == 5
MaxBackoff == 2

\* sqlite3.OperationalError messages, as words; str(e).lower() leaves them as is
LockedMsg == <<"database", "is", "locked">>
BusyMsg == <<"database", "is", "busy">>
CantOpenMsg == <<"unable", "to", "open", "database", "file">>

Exc(type, msg) == [type |-> type, msg |-> msg]

\* what one sqlite3.connect + PRAGMA attempt can end in
ConnectOutcomes ==
    {Exc("ok", <<>>),
     Exc("OperationalError", LockedMsg),
     Exc("OperationalError", BusyMsg),
     Exc("OperationalError", CantOpenMsg),
     Exc("NotADirectoryError", <<"locked">>)}

\* `"locked" in msg or "busy" in msg`
IsLockMsg(msg) == \E i \in 1..Len(msg) : msg[i] \in {"locked", "busy"}

\* the except clause catches sqlite3.OperationalError only
IsRetried(e) == e.type = "OperationalError" /\ IsLockMsg(e.msg)

RECURSIVE Pow2(_)
Pow2(n) == IF n = 0 THEN 1 ELSE 2 * Pow2(n - 1)

\* faulty variant of BackoffDelay: a delay that grows linearly
BackoffDelayLinear(b, n) == b * (n + 1)

\* the argument of time.sleep, in units of the smallest backoff
BackoffDelay(b, n) == b * Pow2(n)

\* retries and backoff are the function's parameters
ConnInit ==
    /\ retries \in 1..MaxRetries
    /\ backoff \in 1..MaxBackoff
    /\ attempt = 0 /\ sleeps = <<>> /\ lastExc = Exc("none", <<>>)
    /\ connState = "loop"
    /\ pc = "open_abs_db" /\ overview = <<>> /\ collections = <<>>
    /\ trace = <<>> /\ call = NoCall
    /\ RunIdle /\ DbIdle

\* one iteration of `for attempt in range(retries)`
ConnAttempt ==
    /\ connState = "loop" /\ attempt < retries
    /\ \E e \in ConnectOutcomes :
          /\ trace' = Append(trace, e)
          /\ IF e.type = "ok"
             THEN /\ connState' = "connected"
                  /\ call' = [op |-> "return"]
                  /\ UNCHANGED <<attempt, sleeps, lastExc>>
             ELSE IF e.type # "OperationalError"
             THEN /\ connState' = "raised"
                  /\ call' = [op |-> "raise", exc |-> e]
                  /\ UNCHANGED <<attempt, sleeps, lastExc>>
             ELSE IF IsLockMsg(e.msg)
             THEN /\ lastExc' = e
                  /\ sleeps' = Append(sleeps, BackoffDelay(backoff, attempt))
                  /\ attempt' = attempt + 1
                  /\ UNCHANGED <<connState, call>>
             ELSE /\ lastExc' = e
                  /\ connState' = "raised"
                  /\ call' = [op |-> "raise", exc |-> e]
                  /\ UNCHANGED <<attempt, sleeps>>
    /\ UNCHANGED <<pc, overview, collections, retries, backoff, runVars, dbVars>>

\* the loop ran out: `raise last_exc`
ConnExhausted ==
    /\ connState = "loop" /\ attempt = retries
    /\ connState' = "raised"
    /\ call' = [op |-> "raise", exc |-> lastExc]
    /\ UNCHANGED <<pc, overview, collections, trace, attempt, sleeps, lastExc,
                   retries, backoff, runVars, dbVars>>

ConnNext == ConnAttempt \/ ConnExhausted

SpecConn == ConnInit /\ [][ConnNext]_vars

\* C9: at most `retries` attempts are made; every attempt but the last ended in
\* a lock failure, and the k-th lock failure was followed by a sleep of
\* backoff * 2^(k-1); the call raises the last lock error exactly when all
\* `retries` attempts were lock failures, raises any other failure at once with
\* no sleep after it, and returns at the first success.
C9_BoundedRetry ==
    LET n == Len(trace)
        lockFails == {i \in 1..n : IsRetried(trace[i])}
    IN  /\ n <= retries
        /\ \A i \in 1..(n - 1) : IsRetried(trace[i])
        /\ Len(sleeps) = Cardinality(lockFails)
        /\ \A k \in 1..Len(sleeps) : sleeps[k] = backoff * Pow2(k - 1)
        /\ (connState = "loop" /\ n < retries) => ENABLED ConnAttempt
        /\ connState = "connected" => (n >= 1 /\ trace[n].type = "ok")
        /\ connState = "raised" =>
              /\ n >= 1 /\ trace[n].type # "ok" /\ call.exc = trace[n]
              /\ IsRetried(trace[n]) <=> (n = retries /\ lockFails = 1..n)
              /\ ~IsRetried(trace[n]) => Len(sleeps) = n - 1
        /\ (n >= 1 /\ trace[n].type = "ok") => connState = "connected"
        /\ (n >= 1 /\ ~IsRetried(trace[n]) /\ trace[n].type # "ok") => connState = "raised"

\* C9 witness: three lock failures in a row used up retries = 3 and the last
\* one was raised, after sleeps of backoff, 2*backoff and 4*backoff
C9_Witness ==
    /\ connState = "raised" /\ retries = 3 /\ Len(trace) = 3 /\ backoff = 2
    /\ \A i \in 1..3 : IsRetried(trace[i])
    /\ trace[2] # trace[3]
    /\ call.exc = trace[3]
    /\ sleeps = <<2, 4, 8>>

----------------------------------------------------------------------------
(* The resolver, driven alone against a catalog *)

MaxBooks == 2

LibraryIds == {"L1", "L2"}

\* a row of books with its authors (bookAuthors JOIN authors) and the
\* libraries that hold a libraryItems row for it
BookRow(id, isbn, title, authors, libs) ==
    [id |-> id, isbn |-> isbn, title |-> title, authors |-> authors, libs |-> libs]

\* stored ISBNs hyphenated, upper case, with a space, shared by two books of
\* different libraries; authors with a middle name
ResolvePool ==
    {BookRow("k1", <<"1", "-", "2">>, <<"F", "o">>, {<<"a", " ", "b">>}, {"L1"}),
     BookRow("k2", <<"1", "2">>, <<"F", "o">>, {<<"A", " ", "x", " ", "b">>}, {"L2"}),
     BookRow("k3", <<>>, <<"f", "o">>, {<<"b">>}, {"L1"}),
     BookRow("k4", <<"1", "X">>, <<"a", " ", "b">>, {<<"a">>, <<"b">>}, {"L1", "L2"}),
     BookRow("k5", <<"1", " ", "2">>, <<"F", "o">>, {<<"b", " ", "a">>}, {"L1"})}

\* the tables of up to n rows of pool with distinct ids, in every scan order
TablesUpTo(pool, n) ==
    {t \in SeqsUpTo(pool, n) : \A i, j \in 1..Len(t) : t[i].id = t[j].id => i = j}

\* the records handed to the resolver
ResolveRecords ==
    {Book(<<"F", "o">>, <<<<"a", " ", "b">>>>, <<"1", "2">>, "A", 1),
     Book(<<"o">>, <<<<"b">>>>, <<"1", " ", "-", " ", "2">>, "A", 2),
     Book(<<" ", "f", "o", " ">>, <<<<"x">>, <<"b">>>>, <<>>, "A", 1),
     Book(<<"A", " ", " ", "B">>, <<<<"a">>>>, <<"1", "x">>, "B", NoRank),
     Book(<<"F", "O">>, <<<<"x">>, <<" ", "a", " ", " ", "B">>, <<"b">>>>, <<"2">>, "B", 3),
     Book(<<" ">>, <<<<"a">>>>, <<"-">>, "A", 1),
     Book(<<"f", "o">>, <<>>, <<"2", "2">>, "A", 2)}

ResolveInit ==
    /\ booksTable \in TablesUpTo(ResolvePool, MaxBooks)
    /\ pc = "ready" /\ call = NoCall
    /\ overview = <<>> /\ collections = <<>> /\ trace = <<>>
    /\ librariesTable = <<>> /\ collectionsTable = <<>>
    /\ collectionBooks = {} /\ saved = <<>> /\ txOpen = FALSE
    /\ clock = 0 /\ db0 = <<>>
    /\ RunIdle /\ ConnIdle

ResolveCall ==
    /\ pc = "ready"
    /\ \E book \in ResolveRecords, library_id \in LibraryIds :
          LET r == resolve_abs_id_for_book(booksTable, book, library_id)
          IN  call' = [op |-> "resolve", book |-> book, library_id |-> library_id,
                       id |-> r.id, log |-> r.log]
    /\ pc' = "resolved"
    /\ UNCHANGED <<overview, collections, trace, runVars, dbVars, connVars>>

ResolveNext == ResolveCall

SpecResolve == ResolveInit /\ [][ResolveNext]_vars

\* catalog entities of the scope whose stored ISBN matches the record's
IsbnMatches(tbl, book, library_id) ==
    {r \in {tbl[i] : i \in 1..Len(tbl)} :
        /\ library_id \in r.libs
        /\ SelectSeq(LowerStr(r.isbn), NotHyphen) = normalize_isbn(book.isbn)}

\* catalog entities of the scope with the record's title and a contributor
\* matching the record's k-th author
AuthorMatches(tbl, book, k, library_id) ==
    {r \in {tbl[i] : i \in 1..Len(tbl)} :
        /\ library_id \in r.libs
        /\ LowerStr(r.title) = normalize_title(book.title)
        /\ \E a \in r.authors :
              Like(LowerStr(a), make_author_like_pattern(book.authors[k]))}

\* C7: an ISBN hit in the scope is returned with no title+author lookup made;
\* failing that, with a non-empty normalized title the authors are looked up in
\* list order up to the first that hits, and its hit is returned; otherwise the
\* result is absent.  A returned identifier is a catalog row's, in the scope.
C7_ResolveOrder ==
    call.op = "resolve" =>
        LET book == call.book
            lib == call.library_id
            byIsbn == IF Len(normalize_isbn(book.isbn)) > 0
                      THEN IsbnMatches(booksTable, book, lib) ELSE {}
            hitting == {k \in 1..Len(book.authors) :
                           AuthorMatches(booksTable, book, k, lib) # {}}
            titleQueries == SelectSeq(call.log, LAMBDA q : q.q = "title")
        IN  /\ byIsbn # {} =>
                  /\ call.id \in {r.id : r \in byIsbn}
                  /\ titleQueries = <<>>
            /\ (byIsbn = {} /\ Len(normalize_title(book.title)) > 0 /\ hitting # {}) =>
                  /\ call.id \in {r.id : r \in AuthorMatches(booksTable, book, MinOf(hitting), lib)}
                  /\ Len(titleQueries) = MinOf(hitting)
                  /\ \A k \in 1..Len(titleQueries) :
                        titleQueries[k].pat = make_author_like_pattern(book.authors[k])
            /\ (byIsbn = {} /\ (Len(normalize_title(book.title)) = 0 \/ hitting = {})) =>
                  call.id = None
            /\ call.id # None =>
                  \E i \in 1..Len(booksTable) :
                      booksTable[i].id = call.id /\ lib \in booksTable[i].libs

\* C7 witness: the ISBN lookup missed, the first author missed, and a later
\* author's hit was returned
C7_Witness ==
    /\ call.op = "resolve"
    /\ Len(normalize_isbn(call.book.isbn)) > 0
    /\ IsbnMatches(booksTable, call.book, call.library_id) = {}
    /\ Len(call.log) = 3
    /\ call.log[1].q = "isbn"
    /\ AuthorMatches(booksTable, call.book, 1, call.library_id) = {}
    /\ call.id # None
    /\ call.id \in {r.id : r \in AuthorMatches(booksTable, call.book, 2, call.library_id)}

----------------------------------------------------------------------------
(* The sync routines, driven alone against the collections tables *)

MaxCalls == 2
MaxIds == 3

CollectionRow(id, name, libraryId) ==
    [id |-> id, name |-> name, libraryId |-> libraryId, createdAt |-> 0, updatedAt |-> 0]

\* collections tables a run can meet: none, the target in the run's library,
\* the target's name in another library, and the name held twice
SyncTables ==
    {<<>>,
     <<CollectionRow(StoredId(1), "NYT", "L1")>>,
     <<CollectionRow(StoredId(2), "NYT", "L2"), CollectionRow(StoredId(3), "Other", "L1")>>,
     <<CollectionRow(StoredId(2), "NYT", "L2"), CollectionRow(StoredId(1), "NYT", "L1")>>}

MemberRow(id, order, bookId, collectionId) ==
    [id |-> id, order |-> order, createdAt |-> 0, bookId |-> bookId,
     collectionId |-> collectionId]

\* memberships a collection can hold before a call: none, a well-formed one,
\* and one with a gap and a repeated book
PriorRows(cid) ==
    {{},
     {MemberRow(StoredId(10), 1, "k1", cid), MemberRow(StoredId(11), 2, "k2", cid)},
     {MemberRow(StoredId(12), 2, "k3", cid), MemberRow(StoredId(13), 5, "k3", cid)}}

\* every way to give each collection of tbl one of its prior memberships
RECURSIVE PriorTables(_)
PriorTables(tbl) ==
    IF Len(tbl) = 0 THEN {{}}
    ELSE {a \cup b : a \in PriorRows(Head(tbl).id), b \in PriorTables(Tail(tbl))}

\* duck-typed books: anything with an abs_book_id
SyncBookLists ==
    {[i \in 1..Len(ids) |-> [abs_book_id |-> ids[i]]] :
        ids \in SeqsUpTo({"k1", "k2", None}, MaxIds)}

NoIds == [name \in {"NYT", "Kids"} |-> {}]

SyncCall(op, name, library_id, id, books, old) ==
    [op |-> op, name |-> name, library_id |-> library_id, id |-> id, books |-> books,
     collsBefore |-> collectionsTable, rowsBefore |-> collectionBooks,
     prev |-> [op |-> old.op, name |-> old.name, id |-> old.id],
     repeated |-> (op = "replace" /\ old.op = "replace" /\ old.id = id /\ old.books = books),
     ids |-> IF op = "ensure" THEN [old.ids EXCEPT ![name] = @ \cup {id}] ELSE old.ids]

SyncInit ==
    /\ collectionsTable \in SyncTables
    /\ collectionBooks \in PriorTables(collectionsTable)
    /\ clock = 0
    /\ call = [op |-> "none", name |-> "", id |-> StoredId(0), books |-> <<>>, ids |-> NoIds]
    /\ pc = "sync" /\ overview = <<>> /\ collections = <<>> /\ trace = <<>>
    /\ booksTable = <<>> /\ librariesTable = <<>> /\ saved = <<>>
    /\ txOpen = FALSE /\ db0 = <<>>
    /\ RunIdle /\ ConnIdle

\* a call of get_or_create_collection
SyncEnsure ==
    /\ clock < MaxCalls
    /\ \E name \in {"NYT", "Kids"}, library_id \in LibraryIds :
          LET g == get_or_create_collection(collectionsTable, name, library_id, clock + 1)
          IN  /\ collectionsTable' = g.table
              /\ call' = SyncCall("ensure", name, library_id, g.id, <<>>, call)
    /\ clock' = clock + 1
    /\ UNCHANGED <<pc, overview, collections, trace, booksTable, librariesTable,
                   collectionBooks, saved, txOpen, db0, runVars, connVars>>

\* a call of replace_collection_books on a collection of the table
SyncReplace ==
    /\ clock < MaxCalls
    /\ \E i \in 1..Len(collectionsTable), books \in SyncBookLists :
          LET cid == collectionsTable[i].id
          IN  /\ collectionBooks' =
                     replace_collection_books(collectionBooks, cid, books, clock + 1)
              /\ call' = SyncCall("replace", "", "", cid, books, call)
    /\ clock' = clock + 1
    /\ UNCHANGED <<pc, overview, collections, trace, booksTable, librariesTable,
                   collectionsTable, saved, txOpen, db0, runVars, connVars>>

SyncNext == SyncEnsure \/ SyncReplace

SpecSync == SyncInit /\ [][SyncNext]_vars

\* the (position, identifier) pairs of a collection's membership rows
Membership(rows, cid) == {<<r.order, r.bookId>> : r \in {x \in rows : x.collectionId = cid}}

RowsOf(rows, cid) == {r \in rows : r.collectionId = cid}

\* the positions of an identifier list that hold a first occurrence
FirstOccurrences(ids) ==
    {i \in 1..Len(ids) : ids[i] # None /\ \A j \in 1..(i - 1) : ids[j] # ids[i]}

\* the membership the claims promise for an identifier list
Deduplicated(ids) ==
    LET keep == FirstOccurrences(ids)
    IN  {<<Cardinality({j \in keep : j <= i}), ids[i]>> : i \in keep}

\* C3: after replace_collection_books the collection's rows are exactly the
\* first occurrences of the input, numbered 1..N in input order, one row per
\* identifier; an input with no identifier leaves no row; a second call with
\* the same input leaves the same (position, identifier) rows; and the rows of
\* every other collection are untouched.
C3_ReplaceIdempotent ==
    call.op = "replace" =>
        LET ids == [i \in 1..Len(call.books) |-> call.books[i].abs_book_id]
            mine == RowsOf(collectionBooks, call.id)
            n == Cardinality(FirstOccurrences(ids))
        IN  /\ Membership(collectionBooks, call.id) = Deduplicated(ids)
            /\ Cardinality(mine) = n
            /\ {r.order : r \in mine} = 1..n
            /\ \A r1, r2 \in mine : r1.bookId = r2.bookId => r1 = r2
            /\ \A r1 \in mine, r2 \in collectionBooks : r1.id = r2.id => r1 = r2
            /\ call.repeated =>
                  Membership(call.rowsBefore, call.id) = Membership(collectionBooks, call.id)
            /\ collectionBooks \ mine = call.rowsBefore \ RowsOf(call.rowsBefore, call.id)

\* C3 witness: the second of two calls with the same input, which repeats an
\* identifier, on a collection that two rows are left in
C3_Witness ==
    /\ call.op = "replace" /\ call.repeated
    /\ Len(call.books) = 3
    /\ Membership(collectionBooks, call.id) = {<<1, "k2">>, <<2, "k1">>}
    /\ RowsOf(collectionBooks, call.id) # RowsOf(call.rowsBefore, call.id)

\* C8: get_or_create_collection creates a collection only when none has the
\* name; otherwise the table changes in nothing but the found row's updatedAt;
\* every call with one name, over the whole run, returned one id; the returned
\* id is that of a row with the name.
C8_EnsureIdempotent ==
    call.op = "ensure" =>
        LET before == call.collsBefore
            named == {i \in 1..Len(before) : before[i].name = call.name}
        IN  /\ \A name \in DOMAIN call.ids : Cardinality(call.ids[name]) <= 1
            /\ Len(collectionsTable) = Len(before) + (IF named = {} THEN 1 ELSE 0)
            /\ \A i \in 1..Len(before) :
                  /\ [collectionsTable[i] EXCEPT !.updatedAt = 0]
                        = [before[i] EXCEPT !.updatedAt = 0]
                  /\ before[i].id # call.id => collectionsTable[i] = before[i]
            /\ \E i \in 1..Len(collectionsTable) :
                  collectionsTable[i].id = call.id /\ collectionsTable[i].name = call.name
            /\ (call.prev.op = "ensure" /\ call.prev.name = call.name) =>
                  call.id = call.prev.id /\ Len(collectionsTable) = Len(before)
            /\ collectionBooks = call.rowsBefore

\* C8 witness: the second of two calls with one name, the first of which
\* created the collection, while another library holds no such name
C8_Witness ==
    /\ call.op = "ensure" /\ call.prev.op = "ensure"
    /\ call.prev.name = call.name
    /\ call.id = Uuid(1, 0)
    /\ Len(collectionsTable) = Len(call.collsBefore)
    /\ Len(collectionsTable) = 3
    /\ \E i \in 1..Len(collectionsTable) :
          collectionsTable[i].id = call.id /\ collectionsTable[i].updatedAt = clock
             /\ collectionsTable[i].createdAt < clock

\* C10 as claimed: the collection get_or_create_collection returns belongs to
\* the library it was called with
C10_ReturnedGroupInScope ==
    call.op = "ensure" =>
        \A i \in 1..Len(collectionsTable) :
            collectionsTable[i].id = call.id =>
                collectionsTable[i].libraryId = call.library_id

----------------------------------------------------------------------------
(* main: the run orchestrator *)

NGroups == Len(CollectionNames)

\* entries of the run's snapshots: one resolved by ISBN, one by title and its
\* second author, one that nothing in the catalog matches, and one that
\* resolves by title+author to the book the first resolves to by ISBN
MainPool ==
    {Entry(<<"F", "o">>, <<<<"a", " ", "b">>>>, <<"1", "2">>, <<>>, 1),
     Entry(<<"f", "o", " ">>, <<<<"x">>, <<"b">>>>, <<>>, <<>>, 2),
     Entry(<<"o">>, <<<<"a">>>>, <<"2">>, <<>>, NoRank),
     Entry(<<"F", "o">>, <<<<"a">>>>, <<>>, <<>>, 3)}

MainOverviews ==
    {[s \in present |-> lists[s]] :
        present \in {{"A"}, {"A", "B"}, {"A", "B", "C"}},
        lists \in [A : SeqsUpTo(MainPool, MaxEntries),
                   B : {<<e>> : e \in MainPool},
                   C : {<<Entry(<<"F", "o">>, <<<<"b">>>>, <<"1", "-", "2">>, <<>>, 1)>>}]}

\* catalogs of the run: the library's books; another library's book with the
\* same ISBN first in scan order; no book at all
MainCatalogs ==
    {<<BookRow("k1", <<"1", "-", "2">>, <<"F", "o">>, {<<"a", " ", "b">>}, {"L1"}),
       BookRow("k3", <<>>, <<"f", "o">>, {<<"b">>}, {"L1"})>>,
     <<BookRow("k2", <<"1", "2">>, <<"F", "o">>, {<<"A", " ", "x", " ", "b">>}, {"L2"}),
       BookRow("k1", <<"1", "-", "2">>, <<"F", "o">>, {<<"a", " ", "b">>}, {"L1"})>>,
     <<>>}

LibraryRow(id, name) == [id |-> id, name |-> name]

MainLibraries ==
    {<<LibraryRow("L2", "podcasts"), LibraryRow("L1", "books")>>,
     <<LibraryRow("L2", "podcasts")>>}

\* the rows a collection of the table holds before the run
RECURSIVE StoredRows(_)
StoredRows(tbl) ==
    IF Len(tbl) = 0 THEN {}
    ELSE {MemberRow(StoredId(10 * Len(tbl) + 1), 1, "k3", Head(tbl).id),
          MemberRow(StoredId(10 * Len(tbl) + 2), 3, "k9", Head(tbl).id)}
         \cup StoredRows(Tail(tbl))

Event(e, g) == [e |-> e, g |-> g, id |-> StoredId(0)]

Tables == <<collectionsTable, collectionBooks>>

\* faulty variant of RolledBack: the handler leaves the tables as they are
RolledBackNothing(now, atBegin) == now

\* ROLLBACK: the tables as of BEGIN
RolledBack(now, atBegin) == atBegin

MainInit ==
    /\ pc = "start" /\ overview = <<>> /\ collections = <<>>
    /\ booksTable \in MainCatalogs
    /\ librariesTable \in MainLibraries
    /\ collectionsTable \in SyncTables
    /\ collectionBooks = StoredRows(collectionsTable)
    /\ saved = <<>> /\ txOpen = FALSE /\ clock = 0
    /\ db0 = Tables
    /\ trace = <<>> /\ call = NoCall
    /\ RunIdle /\ ConnIdle

\* fetch_nyt_overview: the request is sent
FetchStart ==
    /\ pc = "start"
    /\ pc' = "fetching"
    /\ trace' = Append(trace, Event("fetch_start", 0))
    /\ UNCHANGED <<overview, collections, call, runVars, dbVars, connVars>>

\* fetch_nyt_overview returns the snapshot
FetchEnd ==
    /\ pc = "fetching"
    /\ \E ov \in MainOverviews : overview' = ov
    /\ pc' = "fetched"
    /\ trace' = Append(trace, Event("fetch_end", 0))
    /\ UNCHANGED <<collections, call, runVars, dbVars, connVars>>

Build ==
    /\ pc = "fetched"
    /\ collections' = build_abs_collections(overview, ABS_COLLECTIONS)
    /\ pc' = "built"
    /\ trace' = Append(trace, Event("build", 0))
    /\ UNCHANGED <<overview, call, runVars, dbVars, connVars>>

\* open_abs_db() returns a connection (its retry loop is SpecConn)
OpenDb ==
    /\ pc = "built"
    /\ pc' = "opened"
    /\ trace' = Append(trace, Event("open", 0))
    /\ UNCHANGED <<overview, collections, call, runVars, dbVars, connVars>>

\* get_library_id: RuntimeError when the library is not in the catalog
GetLibraryId ==
    /\ pc = "opened"
    /\ trace' = Append(trace, Event("get_library", 0))
    /\ IF LibraryRows(librariesTable, ABS_LIBRARY_NAME) = {}
       THEN /\ pc' = "failed"
            /\ call' = [op |-> "raise", exc |-> "RuntimeError", dirty |-> FALSE]
            /\ UNCHANGED lib_id
       ELSE /\ pc' = "have_lib"
            /\ lib_id' = get_library_id(librariesTable, ABS_LIBRARY_NAME)
            /\ UNCHANGED call
    /\ UNCHANGED <<overview, collections, gi, bi, seen, kept, dbVars, connVars>>

\* BEGIN IMMEDIATE, and the first iteration of the enrich loop set up
Begin ==
    /\ pc = "have_lib"
    /\ txOpen' = TRUE
    /\ saved' = Tables
    /\ pc' = "enrich"
    /\ gi' = 1 /\ bi' = 1 /\ seen' = {} /\ kept' = <<>>
    /\ trace' = Append(trace, Event("begin", 0))
    /\ UNCHANGED <<overview, collections, call, lib_id, booksTable, librariesTable,
                   collectionsTable, collectionBooks, clock, db0, connVars>>

\* faulty variant of ResolveStep: an unresolved record raises
ResolveStepStrict ==
    /\ pc = "enrich" /\ gi <= NGroups
    /\ bi <= Len(collections[CollectionNames[gi]])
    /\ LET b == collections[CollectionNames[gi]][bi]
           abs_id == resolve_abs_id_for_book(booksTable, b, lib_id).id
       IN  IF abs_id = None
           THEN /\ pc' = "failed"
                /\ call' = [op |-> "raise", exc |-> "LookupError", dirty |-> FALSE]
                /\ txOpen' = FALSE /\ saved' = <<>>
                /\ trace' = Append(trace, Event("rollback", 0))
                /\ UNCHANGED <<seen, kept, bi>>
           ELSE /\ seen' = seen \cup {abs_id}
                /\ kept' = IF abs_id \in seen THEN kept
                           ELSE Append(kept, [b EXCEPT !.abs_book_id = abs_id])
                /\ bi' = bi + 1
                /\ trace' = Append(trace, Event("resolve", gi))
                /\ UNCHANGED <<pc, call, txOpen, saved>>
    /\ UNCHANGED <<overview, collections, gi, lib_id, booksTable, librariesTable,
                   collectionsTable, collectionBooks, clock, db0, connVars>>

\* one iteration of `for b in books` of the enrich loop
ResolveStep ==
    /\ pc = "enrich" /\ gi <= NGroups
    /\ bi <= Len(collections[CollectionNames[gi]])
    /\ LET b == collections[CollectionNames[gi]][bi]
           abs_id == resolve_abs_id_for_book(booksTable, b, lib_id).id
       IN  IF abs_id = None \/ abs_id \in seen
           THEN UNCHANGED <<seen, kept>>
           ELSE /\ seen' = seen \cup {abs_id}
                /\ kept' = Append(kept, [b EXCEPT !.abs_book_id = abs_id])
    /\ bi' = bi + 1
    /\ trace' = Append(trace, Event("resolve", gi))
    /\ UNCHANGED <<pc, overview, collections, call, gi, lib_id, dbVars, connVars>>

\* `collections[name] = kept`, then the next group, or the sync loop
EndGroup ==
    /\ pc = "enrich" /\ gi <= NGroups
    /\ bi > Len(collections[CollectionNames[gi]])
    /\ collections' = [collections EXCEPT ![CollectionNames[gi]] = kept]
    /\ bi' = 1 /\ seen' = {} /\ kept' = <<>>
    /\ IF gi < NGroups THEN gi' = gi + 1 /\ pc' = "enrich"
                       ELSE gi' = 1 /\ pc' = "ensure"
    /\ trace' = Append(trace, Event("filtered", gi))
    /\ UNCHANGED <<overview, call, lib_id, dbVars, connVars>>

\* upsert_abs_collection_with_books, first call: get_or_create_collection
EnsureStep ==
    /\ pc = "ensure"
    /\ LET g == get_or_create_collection(collectionsTable, CollectionNames[gi],
                                         lib_id, clock + 1)
       IN  /\ collectionsTable' = g.table
           /\ call' = [op |-> "ensure", id |-> g.id]
    /\ clock' = clock + 1
    /\ pc' = "delete"
    /\ trace' = Append(trace, [Event("ensure", gi) EXCEPT !.id = call'.id])
    /\ UNCHANGED <<overview, collections, runVars, booksTable, librariesTable,
                   collectionBooks, saved, txOpen, db0, connVars>>

\* replace_collection_books: now = utc_now_sql(), then the DELETE
DeleteStep ==
    /\ pc = "delete"
    /\ collectionBooks' = DeleteRows(collectionBooks, call.id)
    /\ clock' = clock + 1
    /\ pc' = "insert"
    /\ trace' = Append(trace, Event("delete", gi))
    /\ UNCHANGED <<overview, collections, call, runVars, booksTable, librariesTable,
                   collectionsTable, saved, txOpen, db0, connVars>>

\* faulty variant of InsertStep: the COMMIT indented into the sync loop
InsertStepCommitsInLoop ==
    /\ pc = "insert"
    /\ collectionBooks' =
           InsertRows(collectionBooks, call.id, collections[CollectionNames[gi]], clock)
    /\ gi' = gi /\ pc' = "commit"
    /\ trace' = Append(trace, Event("insert", gi))
    /\ UNCHANGED <<overview, collections, call, bi, seen, kept, lib_id, booksTable,
                   librariesTable, collectionsTable, saved, txOpen, clock, db0, connVars>>

\* replace_collection_books: the de-dup and the INSERTs; then the next group,
\* or the COMMIT
InsertStep ==
    /\ pc = "insert"
    /\ collectionBooks' =
           InsertRows(collectionBooks, call.id, collections[CollectionNames[gi]], clock)
    /\ IF gi < NGroups THEN gi' = gi + 1 /\ pc' = "ensure"
                       ELSE gi' = gi /\ pc' = "commit"
    /\ trace' = Append(trace, Event("insert", gi))
    /\ UNCHANGED <<overview, collections, call, bi, seen, kept, lib_id, booksTable,
                   librariesTable, collectionsTable, saved, txOpen, clock, db0, connVars>>

Commit ==
    /\ pc = "commit"
    /\ txOpen' = FALSE
    /\ saved' = <<>>
    /\ pc' = "done"
    /\ trace' = Append(trace, Event("commit", 0))
    /\ UNCHANGED <<overview, collections, call, runVars, booksTable, librariesTable,
                   collectionsTable, collectionBooks, clock, db0, connVars>>

\* the exception the statement at pc raises when the network or the catalog fails
ExcAt(p) == IF p \in {"start", "fetching"} THEN "HTTPError" ELSE "OperationalError"

\* an exception at any statement: outside the try it just propagates, inside
\* the handler runs ROLLBACK and re-raises
Raise ==
    /\ pc \notin {"done", "failed"}
    /\ pc' = "failed"
    /\ call' = [op |-> "raise", exc |-> ExcAt(pc),
                dirty |-> (txOpen /\ Tables # saved)]
    /\ IF txOpen
       THEN /\ collectionsTable' = RolledBack(Tables, saved)[1]
            /\ collectionBooks' = RolledBack(Tables, saved)[2]
            /\ txOpen' = FALSE
            /\ saved' = <<>>
            /\ trace' = Append(trace, Event("rollback", 0))
       ELSE UNCHANGED <<collectionsTable, collectionBooks, txOpen, saved, trace>>
    /\ UNCHANGED <<overview, collections, runVars, booksTable, librariesTable,
                   clock, db0, connVars>>

Next ==
    \/ FetchStart \/ FetchEnd \/ Build \/ OpenDb \/ GetLibraryId \/ Begin
    \/ ResolveStep \/ EndGroup \/ EnsureStep \/ DeleteStep \/ InsertStep
    \/ Commit \/ Raise

Spec == MainInit /\ [][Next]_vars

\* positions of the trace that hold event e (of group g)
Idx(e) == {i \in 1..Len(trace) : trace[i].e = e}
IdxG(e, g) == {i \in 1..Len(trace) : trace[i].e = e /\ trace[i].g = g}

\* what another connection reads: an open transaction's writes are not visible
Visible == IF txOpen THEN saved ELSE Tables

\* C1: a run that ends in an exception leaves the collections and every
\* membership row as they were before the run, with no transaction open; and
\* until the run has committed nobody sees anything but the tables as they
\* were before it.
C1_AllOrNothing ==
    /\ pc = "failed" => (~txOpen /\ Tables = db0)
    /\ pc # "done" => Visible = db0

\* C1 witness: the run failed after the first group was synced, the second
\* group's collection ensured and its rows deleted; the tables had changed
C1_Witness ==
    /\ pc = "failed" /\ call.op = "raise" /\ call.dirty
    /\ IdxG("insert", 1) # {}
    /\ IdxG("delete", 2) # {} /\ IdxG("insert", 2) = {}
    /\ trace[Len(trace)].e = "rollback"
    /\ db0[2] # {}

\* C2: the fetch and the build come before BEGIN, and no transaction is open
\* during the fetch; BEGIN comes before every resolution; every group has been
\* resolved and filtered in full before the first write of any group; COMMIT
\* comes after the ensure and the insert of every group.
C2_PhaseOrder ==
    /\ pc = "fetching" => ~txOpen
    /\ txOpen => Idx("fetch_end") # {}
    /\ \A j \in Idx("begin") :
          /\ \E i \in Idx("fetch_end") : i < j
          /\ \E i \in Idx("build") : i < j
          /\ \A i \in Idx("fetch_start") \cup Idx("fetch_end") \cup Idx("build") : i < j
    /\ \A j \in Idx("resolve") : \E i \in Idx("begin") : i < j
    /\ \A j \in Idx("ensure") \cup Idx("delete") \cup Idx("insert") :
          /\ \A g \in 1..NGroups :
                /\ \E i \in IdxG("filtered", g) : i < j
                /\ Cardinality(IdxG("resolve", g))
                      = Len(build_abs_collections(overview, ABS_COLLECTIONS)[CollectionNames[g]])
          /\ \A i \in Idx("resolve") : i < j
    /\ \A j \in Idx("commit") :
          \A g \in 1..NGroups :
              /\ \E i \in IdxG("ensure", g) : i < j
              /\ \E i \in IdxG("insert", g) : i < j
    /\ (pc = "done" <=> Idx("commit") # {})

\* C2 witness: a committed run that resolved records of both groups
C2_Witness ==
    /\ pc = "done"
    /\ Cardinality(IdxG("resolve", 1)) >= 2
    /\ Cardinality(IdxG("resolve", 2)) >= 1
    /\ Cardinality(Idx("insert")) = NGroups

\* the identifiers the merged entries of a group resolve to, in merger order
ResolvedIds(name) ==
    LET merged == build_abs_collections(overview, ABS_COLLECTIONS)[name]
    IN  [i \in 1..Len(merged) |->
            resolve_abs_id_for_book(booksTable, merged[i], lib_id).id]

\* C4: after COMMIT the collection ensured for each group holds exactly the
\* identifiers its merged entries resolve to, in merger order, numbered from 1,
\* the unresolved entries and the later duplicates left out; and a run fails
\* only on an exception of the network or the catalog, never on a record.
C4_CommittedMembership ==
    /\ pc = "failed" =>
          (call.op = "raise" /\ call.exc \in {"HTTPError", "OperationalError", "RuntimeError"})
    /\ pc = "done" =>
          \A g \in 1..NGroups :
              /\ Cardinality(IdxG("ensure", g)) = 1
              /\ \A j \in IdxG("ensure", g) :
                    LET ids == ResolvedIds(CollectionNames[g])
                    IN  /\ Membership(collectionBooks, trace[j].id) = Deduplicated(ids)
                        /\ Cardinality(RowsOf(collectionBooks, trace[j].id))
                              = Cardinality(FirstOccurrences(ids))
                        /\ \E i \in 1..Len(collectionsTable) :
                              /\ collectionsTable[i].id = trace[j].id
                              /\ collectionsTable[i].name = CollectionNames[g]

\* C4 witness: a committed run in which one entry of a group was unresolved
\* and two entries resolved to one book, which the membership holds once
C4_Witness ==
    /\ pc = "done"
    /\ LET ids == ResolvedIds("NYT")
       IN  /\ \E i \in 1..Len(ids) : ids[i] = None
           /\ \E i, j \in 1..Len(ids) : i < j /\ ids[i] = ids[j] /\ ids[i] # None
           /\ \E j \in IdxG("ensure", 1) :
                 Cardinality(RowsOf(collectionBooks, trace[j].id)) = 1

====
